---- MODULE Spec2Model ----
(***************************************************************************)
(* Model of the Mk2PVRouter component (components/mk2pvrouter): the frame  *)
(* reader, the record parser, the router state machine and the listener    *)
(* registry.  Bytes are integers 0..255, buffers are functions from a      *)
(* 0-based index to a byte, exactly as the C++ arrays are indexed.         *)
(***************************************************************************)
EXTENDS Integers, Sequences, FiniteSets, TLC

(***************************************************************************)
(* Protocol bytes (mk2pvrouter.cpp:9-13).                                  *)
(***************************************************************************)
START_FRAME == 2
END_FRAME == 3
LINE_FEED == 10
CARRIAGE_RETURN == 13
TAB == 9

(***************************************************************************)
(* Sizes.  The source has MAX_BUF_SIZE = 1048, MAX_TAG_SIZE = MAX_VAL_SIZE *)
(* = 16 and a read cap of 128 bytes per call; the model keeps their roles  *)
(* and their order (cap < record pair < buffer) at sizes TLC can explore.  *)
(***************************************************************************)
MAX_BUF_SIZE == 20
MAX_TAG_SIZE == 3
MAX_VAL_SIZE == 3
MAX_ITERATIONS == 6

(* Environment bounds: chunks delivered in a run, bytes pending in the     *)
(* UART receive queue, listeners registered.                               *)
MaxChunks == 4
MaxRx == 10
MaxListeners == 3

(* checksum_area_end_ as set by the constructor. *)
checksum_area_end_ == 1

(* Result of memchr when the byte is absent (a null pointer). *)
NOT_FOUND == -1

(* buf_index_ is a uint32_t: buf_index_ - 1 wraps to UINT32_MAX when the   *)
(* fill length is 0.  TLC's integers end at 2^31 - 1, which stands for it: *)
(* either value exceeds every buffer size.                                 *)
UINT_WRAP == 2147483647

VARIABLES
    state_,                  \* State enum
    buf_,                    \* char buf_[MAX_BUF_SIZE]
    buf_index_,              \* fill length
    tag_,                    \* char tag_[MAX_TAG_SIZE]
    val_,                    \* char val_[MAX_VAL_SIZE]
    mk2pvrouter_listeners_,  \* registered listeners, in registration order
    rx,                      \* bytes available() on the UART, oldest first
    setup_done,              \* setup() has run
    nchunks,                 \* chunks delivered so far (environment bound)
    ev,                      \* history: the last operation
    rd,                      \* history: how the last Frame Reader call ended
    nread,                   \* history: bytes the last operation consumed from rx
    wr,                      \* history: buffer indices the last operation wrote
    cur,                     \* history: payload bytes consumed since the last start marker
    out,                     \* history: Measurements handed to publish_value_ by the last operation
    calls,                   \* history: listener invocations made by the last operation
    rd_hi,                   \* history: 1 + highest buffer index the last parse examined
    char_signed,             \* the build's plain char is signed
    crc,                     \* history: value returned by the last calculate_crc_ call made on its own
    chk                      \* history: outcome of the last check_crc_ call made on its own

vars == <<state_, buf_, buf_index_, tag_, val_, mk2pvrouter_listeners_, rx,
          setup_done, nchunks, ev, rd, nread, wr, cur, out, calls, rd_hi,
          char_signed, crc, chk>>

prog == <<state_, buf_, buf_index_, tag_, val_, mk2pvrouter_listeners_>>

crc_io == <<char_signed, crc, chk>>

Min(S) == CHOOSE x \in S : \A y \in S : x <= y
Max(S) == CHOOSE x \in S : \A y \in S : x >= y

(***************************************************************************)
(* memchr(mem + from, c, len): the lowest index in [from, from + len) that *)
(* holds c, looking only at bytes of the array; NOT_FOUND otherwise.       *)
(***************************************************************************)
Memchr(mem, from, c, len) ==
    LET hits == {i \in DOMAIN mem : i >= from /\ i < from + len /\ mem[i] = c}
    IN  IF hits = {} THEN NOT_FOUND ELSE Min(hits)

(* The scan of [from, from + len) leaves the array without meeting c. *)
Overruns(mem, from, c, len) ==
    /\ Memchr(mem, from, c, len) = NOT_FOUND
    /\ from + len > Cardinality(DOMAIN mem)

(* A copy that leaves out the terminating NUL. *)
StrNCpy_no_terminator(dest, buf, from, len) ==
    [i \in DOMAIN dest |->
        IF i < len
        THEN IF \E k \in 0..i : buf[from + k] = 0 THEN 0 ELSE buf[from + i]
        ELSE dest[i]]

(***************************************************************************)
(* strncpy(dest, buf + from, len); dest[len] = '\0'.  strncpy stops        *)
(* copying at a NUL byte of the source and pads the rest with NULs.        *)
(***************************************************************************)
StrNCpy(dest, buf, from, len) ==
    [i \in DOMAIN dest |->
        IF i < len
        THEN IF \E k \in 0..i : buf[from + k] = 0 THEN 0 ELSE buf[from + i]
        ELSE IF i = len THEN 0 ELSE dest[i]]

(* std::string built from a char pointer: the bytes before the first NUL. *)
CString(arr) ==
    LET z == Min({i \in DOMAIN arr : arr[i] = 0} \cup {Cardinality(DOMAIN arr)})
    IN  [i \in 1..z |-> arr[i - 1]]

(* A get_field whose length test lets a field of max_len bytes through. *)
get_field_copy_at_max(dest, buf, buf_start, buf_end, max_len) ==
    LET field_end == Memchr(buf, buf_start, TAB, buf_end - buf_start)
        len == field_end - buf_start
    IN  IF field_end = NOT_FOUND THEN [len |-> 0, dest |-> dest]
        ELSE IF len > max_len THEN [len |-> len, dest |-> dest]
        ELSE [len |-> len, dest |-> StrNCpy(dest, buf, buf_start, len)]

(***************************************************************************)
(* get_field: length of the field ending at the first TAB of               *)
(* [buf_start, buf_end), 0 when there is no TAB; the field is copied to    *)
(* dest only when it is shorter than max_len.                              *)
(***************************************************************************)
get_field(dest, buf, buf_start, buf_end, max_len) ==
    LET field_end == Memchr(buf, buf_start, TAB, buf_end - buf_start)
        len == field_end - buf_start
    IN  IF field_end = NOT_FOUND THEN [len |-> 0, dest |-> dest]
        ELSE IF len >= max_len THEN [len |-> len, dest |-> dest]
        ELSE [len |-> len, dest |-> StrNCpy(dest, buf, buf_start, len)]

(***************************************************************************)
(* calculate_crc_: an 8-bit sum of the first grp_len - checksum_area_end_  *)
(* bytes, masked to 6 bits, plus 0x20.                                     *)
(***************************************************************************)
(* The int a char holding byte b converts to, where char is signed or not. *)
CharValue(b) == IF char_signed /\ b >= 128 THEN b - 256 ELSE b

(* A sum that saturates at 255 and does not wrap. *)
RECURSIVE SumBytes_saturating(_, _, _, _)
SumBytes_saturating(buf, grp, i, n) ==
    IF i >= n THEN 0
    ELSE IF SumBytes_saturating(buf, grp, i + 1, n) + buf[grp + i] > 255 THEN 255
    ELSE SumBytes_saturating(buf, grp, i + 1, n) + buf[grp + i]

RECURSIVE SumBytes(_, _, _, _)
SumBytes(buf, grp, i, n) ==
    IF i >= n THEN 0
    ELSE (SumBytes(buf, grp, i + 1, n) + CharValue(buf[grp + i])) % 256

(* A checksum that also sums the group's last byte. *)
calculate_crc_whole_group(buf, grp, grp_len) ==
    LET crc_tmp == SumBytes(buf, grp, 0, grp_len)
    IN  ((crc_tmp % 64) + 32) % 256

calculate_crc_(buf, grp, grp_len) ==
    LET crc_tmp == SumBytes(buf, grp, 0, grp_len - checksum_area_end_)
    IN  ((crc_tmp % 64) + 32) % 256

(* A checksum check that compares the low six bits only. *)
check_crc_low_bits(buf, grp, grp_end) ==
    buf[grp_end - 1] % 64 = calculate_crc_(buf, grp, grp_end - grp) % 64

(* A checksum check that accepts every group. *)
check_crc_accept_all(buf, grp, grp_end) == TRUE

(* check_crc_: the last byte of the group against the computed checksum. *)
check_crc_(buf, grp, grp_end) ==
    LET grp_len == grp_end - grp
        raw_crc == CharValue(buf[grp + grp_len - 1])
    IN  raw_crc = calculate_crc_(buf, grp, grp_len)

(***************************************************************************)
(* read_chars_until_(drop, c), on the pending bytes rx, the buffer and the *)
(* fill length.  j counts the read() calls of this invocation.             *)
(***************************************************************************)
(* A read loop that allows one byte more than the cap. *)
MoreToRead_one_more(avail, j) == avail > 0 /\ j <= MAX_ITERATIONS

MoreToRead(avail, j) == avail > 0 /\ j < MAX_ITERATIONS

(* An overflow test that fires two bytes later. *)
BufferFull_late(idx) == idx >= MAX_BUF_SIZE + 1

BufferFull(idx) == idx >= MAX_BUF_SIZE - 1

RECURSIVE ReadLoop(_, _, _, _, _, _, _)
ReadLoop(drop, c, q, buf, idx, j, w) ==
    IF ~MoreToRead(Len(q), j)
    THEN [ret |-> FALSE, why |-> IF Len(q) > 0 THEN "cap" ELSE "drained",
          off |-> FALSE, q |-> q, buf |-> buf, idx |-> idx, n |-> j, w |-> w]
    ELSE LET received == Head(q) IN
         IF received = c
         THEN [ret |-> TRUE, why |-> "found", off |-> FALSE, q |-> Tail(q),
               buf |-> buf, idx |-> idx, n |-> j + 1, w |-> w]
         ELSE IF drop
         THEN ReadLoop(drop, c, Tail(q), buf, idx, j + 1, w)
         ELSE IF BufferFull(idx)
         THEN [ret |-> FALSE, why |-> "overflow", off |-> TRUE, q |-> Tail(q),
               buf |-> buf, idx |-> idx, n |-> j + 1, w |-> w]
         ELSE ReadLoop(drop, c, Tail(q), [buf EXCEPT ![idx] = received],
                       idx + 1, j + 1, w \cup {idx})

(* A Frame Reader that stores the bytes it reads whatever drop says. *)
read_chars_until_keeps_noise(drop, c, q, buf, idx) == ReadLoop(FALSE, c, q, buf, idx, 0, {})

(* A Frame Reader that starts every call at index 0 of the buffer. *)
read_chars_until_from_zero(drop, c, q, buf, idx) == ReadLoop(drop, c, q, buf, 0, 0, {})

read_chars_until_(drop, c, q, buf, idx) == ReadLoop(drop, c, q, buf, idx, 0, {})

(***************************************************************************)
(* Listeners: objects with a tag; the registry holds references to them.   *)
(***************************************************************************)
Fill(n, b) == [i \in 1..n |-> b]

Listeners == {"l1", "l2", "l3"}

ListenerTag(l) ==
    CASE l = "l1" -> <<65>>
      [] l = "l2" -> <<65>>
      [] OTHER    -> Fill(MAX_TAG_SIZE - 1, 66)

(* publish_value_: every registered listener whose tag equals tag, in      *)
(* registration order, receives val.                                       *)
TagDiffers(tag, element) == tag # ListenerTag(element)

RECURSIVE PublishFrom(_, _, _, _)
PublishFrom(ls, i, tag, val) ==
    IF i > Len(ls) THEN <<>>
    ELSE (IF TagDiffers(tag, ls[i]) THEN <<>>
          ELSE <<[listener |-> ls[i], val |-> val]>>)
         \o PublishFrom(ls, i + 1, tag, val)

(* A dispatch that stops at the first matching listener. *)
publish_value_first_match(ls, tag, val) ==
    IF PublishFrom(ls, 1, tag, val) = <<>> THEN <<>>
    ELSE <<Head(PublishFrom(ls, 1, tag, val))>>

publish_value_(ls, tag, val) == PublishFrom(ls, 1, tag, val)

(***************************************************************************)
(* The END_FRAME_RECEIVED branch of loop(): the scan of buf_[0 .. n).      *)
(* ub is what a line-feed search that runs off the end of the array        *)
(* returns: a null pointer or an address past the array.                   *)
(***************************************************************************)
ScanLen(n) == IF n > 0 THEN n - 1 ELSE UINT_WRAP

LineFeedSearch(buf, finger, n, ub) ==
    IF Overruns(buf, finger, LINE_FEED, ScanLen(n)) THEN ub
    ELSE Memchr(buf, finger, LINE_FEED, ScanLen(n))

(* A group search that takes the end of the frame for a missing carriage-return. *)
GroupEnd_or_frame_end(buf, finger, buf_end) ==
    IF Memchr(buf, finger, CARRIAGE_RETURN, buf_end - finger) = NOT_FOUND
    THEN buf_end
    ELSE Memchr(buf, finger, CARRIAGE_RETURN, buf_end - finger)

GroupEnd(buf, finger, buf_end) ==
    Memchr(buf, finger, CARRIAGE_RETURN, buf_end - finger)

(* 1 + the highest index a memchr over [from, from + len) looks at. *)
ScanEnd(buf, from, c, len) ==
    IF len <= 0 THEN 0
    ELSE IF Memchr(buf, from, c, len) # NOT_FOUND THEN Memchr(buf, from, c, len) + 1
    ELSE from + len

AfterTag(finger, field_len) == finger + field_len + 1
AfterGroup(finger, field_len) == finger + field_len + 1 + 1 + 1

RECURSIVE ParseLoop(_, _, _, _, _)
ParseLoop(buf, n, ub, ls, p) ==
    LET lf == LineFeedSearch(buf, p.finger, n, ub)
        hi1 == Max({p.hi, ScanEnd(buf, p.finger, LINE_FEED, ScanLen(n))})
    IN
    IF ~(lf # NOT_FOUND /\ lf < n) THEN [p EXCEPT !.hi = hi1]
    ELSE
    LET f1 == lf + 1
        grp_end == GroupEnd(buf, f1, n)
        hi2 == Max({hi1, ScanEnd(buf, f1, CARRIAGE_RETURN, n - f1)})
    IN
    IF grp_end = NOT_FOUND THEN [p EXCEPT !.finger = f1, !.hi = hi2]
    ELSE IF ~check_crc_(buf, f1, grp_end)
    THEN ParseLoop(buf, n, ub, ls, [p EXCEPT !.finger = f1, !.hi = hi2])
    ELSE
    LET t == get_field(p.tag, buf, f1, grp_end, MAX_TAG_SIZE) IN
    IF t.len = 0 \/ t.len >= MAX_TAG_SIZE
    THEN ParseLoop(buf, n, ub, ls, [p EXCEPT !.finger = f1, !.hi = hi2, !.tag = t.dest])
    ELSE
    LET f2 == AfterTag(f1, t.len)
        v == get_field(p.val, buf, f2, grp_end, MAX_VAL_SIZE)
    IN
    IF v.len = 0 \/ v.len >= MAX_VAL_SIZE
    THEN ParseLoop(buf, n, ub, ls,
                   [p EXCEPT !.finger = f2, !.hi = hi2, !.tag = t.dest, !.val = v.dest])
    ELSE
    LET m == [tag |-> CString(t.dest), val |-> CString(v.dest), at |-> f1] IN
    ParseLoop(buf, n, ub, ls,
              [finger |-> AfterGroup(f2, v.len), hi |-> hi2,
               tag |-> t.dest, val |-> v.dest,
               out |-> Append(p.out, m),
               calls |-> p.calls \o publish_value_(ls, m.tag, m.val)])

ParseFrame(buf, n, ub, ls, tag, val) ==
    ParseLoop(buf, n, ub, ls,
              [finger |-> 0, hi |-> 0, tag |-> tag, val |-> val,
               out |-> <<>>, calls |-> <<>>])

(***************************************************************************)
(* The device's side of the line: records as the protocol frames them,     *)
(* LF tag TAB value TAB checksum CR, and the ways a record can be damaged. *)
(***************************************************************************)
RECURSIVE SeqSum(_)
SeqSum(s) == IF s = <<>> THEN 0 ELSE Head(s) + SeqSum(Tail(s))

Checksum(s) == (SeqSum(s) % 64) + 32

WrongChecksum(s) == ((SeqSum(s) + 1) % 64) + 32

WithCrc(body) == <<LINE_FEED>> \o body \o <<Checksum(body), CARRIAGE_RETURN>>

Body(tag, val) == tag \o <<TAB>> \o val \o <<TAB>>

MkRecord(tag, val) == WithCrc(Body(tag, val))

BadCrcRecord(tag, val) ==
    <<LINE_FEED>> \o Body(tag, val) \o <<WrongChecksum(Body(tag, val)), CARRIAGE_RETURN>>

Unterminated(tag, val) ==
    <<LINE_FEED>> \o Body(tag, val) \o <<Checksum(Body(tag, val))>>

RecordChunks ==
    { MkRecord(<<65>>, <<66>>),
      MkRecord(Fill(MAX_TAG_SIZE - 1, 66), Fill(MAX_VAL_SIZE - 1, 65)),
      BadCrcRecord(<<65>>, <<66>>),
      MkRecord(Fill(MAX_TAG_SIZE, 65), <<66>>),
      MkRecord(<<65>>, Fill(MAX_VAL_SIZE, 66)),
      MkRecord(<<>>, <<66>>),
      MkRecord(<<65, 0>>, <<66>>),
      WithCrc(<<65, 65>>),
      WithCrc(<<65, TAB, 66>>),
      Unterminated(<<65>>, <<66>>) }

Chunks == {<<START_FRAME>>, <<END_FRAME>>, <<65>>} \cup RecordChunks

ListenerChunks ==
    { <<START_FRAME>>, <<END_FRAME>>,
      MkRecord(<<65>>, <<66>>),
      MkRecord(Fill(MAX_TAG_SIZE - 1, 66), Fill(MAX_VAL_SIZE - 1, 65)) }

(* Contents an array can hold before the program first writes it. *)
UninitFill == {0, LINE_FEED}

(***************************************************************************)
(* Initial state: the object as constructed.                               *)
(***************************************************************************)
Init ==
    /\ state_ = "OFF"
    /\ buf_index_ = 0
    /\ \E f \in UninitFill :
          /\ buf_ = [i \in 0..(MAX_BUF_SIZE - 1) |-> f]
          /\ tag_ = [i \in 0..(MAX_TAG_SIZE - 1) |-> f]
          /\ val_ = [i \in 0..(MAX_VAL_SIZE - 1) |-> f]
    /\ mk2pvrouter_listeners_ = <<>>
    /\ rx = <<>>
    /\ setup_done = FALSE
    /\ nchunks = 0
    /\ ev = "init"
    /\ rd = "none"
    /\ nread = 0
    /\ wr = {}
    /\ cur = <<>>
    /\ out = <<>>
    /\ calls = <<>>
    /\ rd_hi = 0
    /\ char_signed = FALSE
    /\ crc = NOT_FOUND
    /\ chk = "none"

NoIo == rd' = "none" /\ nread' = 0 /\ wr' = {} /\ out' = <<>> /\ calls' = <<>> /\ rd_hi' = 0

(* The UART delivers one more chunk of bytes. *)
Receive(C) ==
    /\ nchunks < MaxChunks
    /\ \E c \in C :
          /\ Len(rx) + Len(c) <= MaxRx
          /\ rx' = rx \o c
    /\ nchunks' = nchunks + 1
    /\ ev' = "receive"
    /\ NoIo
    /\ UNCHANGED <<prog, setup_done, cur, crc_io>>

ReceiveAny == Receive(Chunks)

ReceiveRecords == Receive(ListenerChunks)

(* register_mk2pvrouter_listener *)
register_mk2pvrouter_listener ==
    /\ Len(mk2pvrouter_listeners_) < MaxListeners
    /\ \E l \in Listeners :
          mk2pvrouter_listeners_' = Append(mk2pvrouter_listeners_, l)
    /\ ev' = "register"
    /\ NoIo
    /\ UNCHANGED <<state_, buf_, buf_index_, tag_, val_, rx, setup_done, nchunks, cur, crc_io>>

(* setup(), called once by the host before the first loop() or update() *)
setup ==
    /\ ~setup_done
    /\ setup_done' = TRUE
    /\ state_' = "OFF"
    /\ ev' = "setup"
    /\ NoIo
    /\ UNCHANGED <<buf_, buf_index_, tag_, val_, mk2pvrouter_listeners_, rx, nchunks, cur, crc_io>>

(* An update() that leaves the fill length alone. *)
update_keeps_fill ==
    /\ setup_done
    /\ IF state_ = "OFF"
       THEN state_' = "ON" /\ UNCHANGED buf_index_
       ELSE UNCHANGED <<buf_index_, state_>>
    /\ ev' = "update"
    /\ NoIo
    /\ UNCHANGED <<buf_, tag_, val_, mk2pvrouter_listeners_, rx, setup_done, nchunks, cur, crc_io>>

(* An update() that restarts the cycle whatever the state. *)
update_in_any_state ==
    /\ setup_done
    /\ buf_index_' = 0 /\ state_' = "ON"
    /\ ev' = "update"
    /\ NoIo
    /\ UNCHANGED <<buf_, tag_, val_, mk2pvrouter_listeners_, rx, setup_done, nchunks, cur, crc_io>>

(* update() *)
update ==
    /\ setup_done
    /\ IF state_ = "OFF"
       THEN buf_index_' = 0 /\ state_' = "ON"
       ELSE UNCHANGED <<buf_index_, state_>>
    /\ ev' = "update"
    /\ NoIo
    /\ UNCHANGED <<buf_, tag_, val_, mk2pvrouter_listeners_, rx, setup_done, nchunks, cur, crc_io>>

(* A loop() that parses the buffer again when called in OFF. *)
LoopOff_parses_again ==
    /\ setup_done
    /\ state_ = "OFF"
    /\ LET p == ParseFrame(buf_, buf_index_, NOT_FOUND, mk2pvrouter_listeners_, tag_, val_) IN
          /\ tag_' = p.tag
          /\ val_' = p.val
          /\ out' = p.out
          /\ calls' = p.calls
          /\ rd_hi' = p.hi
    /\ ev' = "loop_off"
    /\ rd' = "none" /\ nread' = 0 /\ wr' = {}
    /\ UNCHANGED <<state_, buf_, buf_index_, mk2pvrouter_listeners_, rx, setup_done, nchunks, cur, crc_io>>

(* loop(), case State::OFF *)
LoopOff ==
    /\ setup_done
    /\ state_ = "OFF"
    /\ ev' = "loop_off"
    /\ NoIo
    /\ UNCHANGED <<prog, rx, setup_done, nchunks, cur, crc_io>>

(* A loop() that goes on to the parse state as soon as a marker is read. *)
AfterRead_to_parse(st, r, next) ==
    IF r.ret THEN "END_FRAME_RECEIVED" ELSE IF r.off THEN "OFF" ELSE st

(* State after `if (read_chars_until_(...)) state_ = next`. *)
AfterRead(st, r, next) ==
    IF r.ret THEN next ELSE IF r.off THEN "OFF" ELSE st

(* loop(), case State::ON *)
LoopOn ==
    /\ setup_done
    /\ state_ = "ON"
    /\ LET r == read_chars_until_(TRUE, START_FRAME, rx, buf_, buf_index_) IN
          /\ state_' = AfterRead(state_, r, "START_FRAME_RECEIVED")
          /\ buf_' = r.buf
          /\ buf_index_' = r.idx
          /\ rx' = r.q
          /\ rd' = r.why
          /\ nread' = r.n
          /\ wr' = r.w
          /\ cur' = IF r.ret THEN <<>> ELSE cur
    /\ ev' = "loop_on"
    /\ out' = <<>> /\ calls' = <<>> /\ rd_hi' = 0
    /\ UNCHANGED <<tag_, val_, mk2pvrouter_listeners_, setup_done, nchunks, crc_io>>

(* loop(), case State::START_FRAME_RECEIVED *)
LoopStartFrame ==
    /\ setup_done
    /\ state_ = "START_FRAME_RECEIVED"
    /\ LET r == read_chars_until_(FALSE, END_FRAME, rx, buf_, buf_index_) IN
          /\ state_' = AfterRead(state_, r, "END_FRAME_RECEIVED")
          /\ buf_' = r.buf
          /\ buf_index_' = r.idx
          /\ rx' = r.q
          /\ rd' = r.why
          /\ nread' = r.n
          /\ wr' = r.w
          /\ cur' = cur \o SubSeq(rx, 1, IF r.ret THEN r.n - 1 ELSE r.n)
    /\ ev' = "loop_start"
    /\ out' = <<>> /\ calls' = <<>> /\ rd_hi' = 0
    /\ UNCHANGED <<tag_, val_, mk2pvrouter_listeners_, setup_done, nchunks, crc_io>>

(* What a read past the end of buf_ can return to the line-feed search. *)
PastTheEnd == {NOT_FOUND, MAX_BUF_SIZE}

(* loop(), case State::END_FRAME_RECEIVED *)
LoopEndFrame ==
    /\ setup_done
    /\ state_ = "END_FRAME_RECEIVED"
    /\ \E ub \in PastTheEnd :
          LET p == ParseFrame(buf_, buf_index_, ub, mk2pvrouter_listeners_, tag_, val_) IN
             /\ tag_' = p.tag
             /\ val_' = p.val
             /\ out' = p.out
             /\ calls' = p.calls
             /\ rd_hi' = p.hi
    /\ state_' = "OFF"
    /\ ev' = "loop_end"
    /\ rd' = "none" /\ nread' = 0 /\ wr' = {}
    /\ UNCHANGED <<buf_, buf_index_, mk2pvrouter_listeners_, rx, setup_done, nchunks, cur, crc_io>>

loop == LoopOff \/ LoopOn \/ LoopStartFrame \/ LoopEndFrame

Next == setup \/ update \/ LoopOff \/ LoopOn \/ LoopStartFrame \/ LoopEndFrame \/ ReceiveAny

Spec == Init /\ [][Next]_vars

(* The registry at work: listeners register at any time while frames of    *)
(* well-formed records arrive.                                             *)
NextListeners ==
    \/ register_mk2pvrouter_listener
    \/ setup \/ update
    \/ LoopOff \/ LoopOn \/ LoopStartFrame \/ LoopEndFrame
    \/ ReceiveRecords

SpecListeners == Init /\ [][NextListeners]_vars

(***************************************************************************)
(* The protocol's own reading of a frame, independent of the scan above:   *)
(* a frame of records is a concatenation of spans LF body CR whose bodies  *)
(* hold no LF and no CR; a body is tag TAB value TAB checksum.             *)
(***************************************************************************)
FrameOf(buf, n) == [i \in 1..n |-> buf[i - 1]]

Frame == FrameOf(buf_, buf_index_)

FirstPos(s, c) ==
    IF \E i \in 1..Len(s) : s[i] = c
    THEN Min({i \in 1..Len(s) : s[i] = c})
    ELSE 0

RECURSIVE IsSpanFrame(_)
IsSpanFrame(s) ==
    \/ s = <<>>
    \/ /\ s[1] = LINE_FEED
       /\ FirstPos(s, CARRIAGE_RETURN) > 0
       /\ \A i \in 2..(FirstPos(s, CARRIAGE_RETURN) - 1) : s[i] # LINE_FEED
       /\ IsSpanFrame(SubSeq(s, FirstPos(s, CARRIAGE_RETURN) + 1, Len(s)))

RECURSIVE SpanBodies(_)
SpanBodies(s) ==
    IF s = <<>> \/ FirstPos(s, CARRIAGE_RETURN) = 0 THEN <<>>
    ELSE <<SubSeq(s, 2, FirstPos(s, CARRIAGE_RETURN) - 1)>>
         \o SpanBodies(SubSeq(s, FirstPos(s, CARRIAGE_RETURN) + 1, Len(s)))

CrcOk(b) == Len(b) >= 1 /\ b[Len(b)] = Checksum(SubSeq(b, 1, Len(b) - 1))

HasTag(b) == FirstPos(b, TAB) > 0
TagOf(b) == SubSeq(b, 1, FirstPos(b, TAB) - 1)
AfterTagOf(b) == SubSeq(b, FirstPos(b, TAB) + 1, Len(b))
HasVal(b) == HasTag(b) /\ FirstPos(AfterTagOf(b), TAB) > 0
ValOf(b) == SubSeq(AfterTagOf(b), 1, FirstPos(AfterTagOf(b), TAB) - 1)
AfterValOf(b) ==
    SubSeq(AfterTagOf(b), FirstPos(AfterTagOf(b), TAB) + 1, Len(AfterTagOf(b)))

(* tag TAB value TAB checksum, nothing more *)
WellShaped(b) == HasVal(b) /\ Len(AfterValOf(b)) = 1

IsText(f) == \A i \in 1..Len(f) : f[i] # 0

ValidBody(b) ==
    /\ WellShaped(b)
    /\ CrcOk(b)
    /\ Len(TagOf(b)) \in 1..(MAX_TAG_SIZE - 1)
    /\ Len(ValOf(b)) \in 1..(MAX_VAL_SIZE - 1)
    /\ IsText(TagOf(b))
    /\ IsText(ValOf(b))

(* The record-local failures: checksum mismatch, no TAB after the tag or   *)
(* after the value, tag or value too long.                                 *)
OffendingBody(b) ==
    \/ ~CrcOk(b)
    \/ ~HasTag(b)
    \/ Len(TagOf(b)) >= MAX_TAG_SIZE
    \/ /\ Len(TagOf(b)) \in 1..(MAX_TAG_SIZE - 1)
       /\ \/ ~HasVal(b)
          \/ Len(ValOf(b)) >= MAX_VAL_SIZE

Pair(t, v) == [tag |-> t, val |-> v]

RECURSIVE ExpectedOf(_)
ExpectedOf(bodies) ==
    IF bodies = <<>> THEN <<>>
    ELSE (IF ValidBody(Head(bodies))
          THEN <<Pair(TagOf(Head(bodies)), ValOf(Head(bodies)))>>
          ELSE <<>>)
         \o ExpectedOf(Tail(bodies))

Expected(s) == ExpectedOf(SpanBodies(s))

Emitted(o) == [i \in 1..Len(o) |-> Pair(o[i].tag, o[i].val)]

AllBodies(s, P(_)) == \A i \in 1..Len(SpanBodies(s)) : P(SpanBodies(s)[i])

(* A record LF tag TAB value TAB checksum CR with a correct checksum and   *)
(* fields shorter than the maximum starts at position p of s.              *)
RecordAt(s, p) ==
    /\ s[p] = LINE_FEED
    /\ LET rest == SubSeq(s, p, Len(s))
           k == FirstPos(rest, CARRIAGE_RETURN)
           b == SubSeq(rest, 2, k - 1)
       IN  /\ k > 0
           /\ \A i \in 1..Len(b) : b[i] # LINE_FEED
           /\ WellShaped(b)
           /\ CrcOk(b)
           /\ Len(TagOf(b)) < MAX_TAG_SIZE
           /\ Len(ValOf(b)) < MAX_VAL_SIZE

BodyAt(s, p) ==
    SubSeq(SubSeq(s, p, Len(s)), 2, FirstPos(SubSeq(s, p, Len(s)), CARRIAGE_RETURN) - 1)

(***************************************************************************)
(* C1 (as stated): after the loop() call made in END_FRAME_RECEIVED, every *)
(* record LF tag TAB value TAB checksum CR of the frame with a correct     *)
(* checksum and tag and value shorter than the maximum field length has    *)
(* produced exactly one Measurement carrying its tag and its value.        *)
(***************************************************************************)
C1_EveryRecordEmitted ==
    ev = "loop_end" =>
        \A p \in 1..Len(Frame) :
            RecordAt(Frame, p) =>
                Cardinality({i \in 1..Len(out) :
                                /\ out[i].at = p
                                /\ out[i].tag = TagOf(BodyAt(Frame, p))
                                /\ out[i].val = ValOf(BodyAt(Frame, p))}) = 1

(* No line-feed before position p of s is left without a carriage-return   *)
(* before p.                                                               *)
ClosedBefore(s, p) ==
    \A q \in 1..(p - 1) :
        s[q] = LINE_FEED => \E r \in (q + 1)..(p - 1) : s[r] = CARRIAGE_RETURN

TextRecordAt(s, p) ==
    /\ RecordAt(s, p)
    /\ ValidBody(BodyAt(s, p))
    /\ ClosedBefore(s, p)

(***************************************************************************)
(* C1 (amended): after the loop() call made in END_FRAME_RECEIVED, every   *)
(* record LF tag TAB value TAB checksum CR of the frame with a correct     *)
(* checksum, whose tag and value are 1 to MAX - 1 bytes of text (no NUL,   *)
(* TAB, LF or CR) and before which every line-feed has its carriage-       *)
(* return, has produced exactly one Measurement with its tag and value;    *)
(* a frame made only of such records emits exactly one Measurement per     *)
(* record, in the order of the records.                                    *)
(***************************************************************************)
C1_ValidRecordsEmitted ==
    ev = "loop_end" =>
        /\ \A p \in 1..Len(Frame) :
              TextRecordAt(Frame, p) =>
                  Cardinality({i \in 1..Len(out) :
                                  /\ out[i].at = p
                                  /\ out[i].tag = TagOf(BodyAt(Frame, p))
                                  /\ out[i].val = ValOf(BodyAt(Frame, p))}) = 1
        /\ (IsSpanFrame(Frame) /\ AllBodies(Frame, ValidBody))
              => Emitted(out) = Expected(Frame)

C1_Witness ==
    /\ ev = "loop_end"
    /\ IsSpanFrame(Frame)
    /\ AllBodies(Frame, ValidBody)
    /\ Len(SpanBodies(Frame)) = 2
    /\ Len(out) = 2
    /\ out[1].tag # out[2].tag

(***************************************************************************)
(* C3: a record-local failure (checksum mismatch, no TAB after the tag or  *)
(* after the value, tag or value too long) discards that record only: in   *)
(* a frame made of records, each one valid or failing in one of these      *)
(* ways, the Measurements emitted are exactly those of the valid records,  *)
(* in frame order, whatever comes before or after them.                    *)
(***************************************************************************)
ValidOrOffending(b) == ValidBody(b) \/ OffendingBody(b)

C3_OnlyOffendingDiscarded ==
    (ev = "loop_end" /\ IsSpanFrame(Frame) /\ AllBodies(Frame, ValidOrOffending))
        => Emitted(out) = Expected(Frame)

(* a corrupted checksum first, a valid record after it: only the second is emitted *)
C3_Witness ==
    /\ ev = "loop_end"
    /\ IsSpanFrame(Frame)
    /\ Len(SpanBodies(Frame)) = 2
    /\ ~CrcOk(SpanBodies(Frame)[1])
    /\ WellShaped(SpanBodies(Frame)[1])
    /\ ValidBody(SpanBodies(Frame)[2])
    /\ Len(out) = 1
    /\ out[1].tag = TagOf(SpanBodies(Frame)[2])

(* Other cases of C3 the model reaches. *)
C3_Reach_ValidThenTagTooLong ==
    /\ ev = "loop_end" /\ IsSpanFrame(Frame) /\ Len(SpanBodies(Frame)) = 2
    /\ ValidBody(SpanBodies(Frame)[1])
    /\ CrcOk(SpanBodies(Frame)[2])
    /\ Len(TagOf(SpanBodies(Frame)[2])) >= MAX_TAG_SIZE
    /\ Len(out) = 1

C3_Reach_ValTooLongThenValid ==
    /\ ev = "loop_end" /\ IsSpanFrame(Frame) /\ Len(SpanBodies(Frame)) = 2
    /\ CrcOk(SpanBodies(Frame)[1])
    /\ HasVal(SpanBodies(Frame)[1])
    /\ Len(ValOf(SpanBodies(Frame)[1])) >= MAX_VAL_SIZE
    /\ ValidBody(SpanBodies(Frame)[2])
    /\ Len(out) = 1

C3_Reach_NoTabThenValid ==
    /\ ev = "loop_end" /\ IsSpanFrame(Frame) /\ Len(SpanBodies(Frame)) = 2
    /\ CrcOk(SpanBodies(Frame)[1])
    /\ ~HasTag(SpanBodies(Frame)[1])
    /\ ValidBody(SpanBodies(Frame)[2])
    /\ Len(out) = 1

C3_Reach_NoValTabThenValid ==
    /\ ev = "loop_end" /\ IsSpanFrame(Frame) /\ Len(SpanBodies(Frame)) = 2
    /\ CrcOk(SpanBodies(Frame)[1])
    /\ HasTag(SpanBodies(Frame)[1]) /\ ~HasVal(SpanBodies(Frame)[1])
    /\ ValidBody(SpanBodies(Frame)[2])
    /\ Len(out) = 1

(***************************************************************************)
(* C4: when the frame holds a line-feed that no carriage-return follows    *)
(* within the filled part of the buffer, the parse stops there: every      *)
(* Measurement emitted starts before that line-feed, the records before it *)
(* are emitted as if the frame ended there, and the call ends in OFF.      *)
(***************************************************************************)
OpenLineFeeds(s) ==
    {q \in 1..Len(s) : s[q] = LINE_FEED /\ \A r \in (q + 1)..Len(s) : s[r] # CARRIAGE_RETURN}

C4_StopsAtOpenLineFeed ==
    ev = "loop_end" =>
        /\ state_ = "OFF"
        /\ OpenLineFeeds(Frame) # {} =>
              LET q == Min(OpenLineFeeds(Frame))
                  before == SubSeq(Frame, 1, q - 1)
              IN  /\ \A i \in 1..Len(out) : out[i].at < q
                  /\ (IsSpanFrame(before) /\ AllBodies(before, ValidOrOffending))
                        => Emitted(out) = Expected(before)

(* a valid record, then a record cut off before its carriage-return *)
C4_Witness ==
    /\ ev = "loop_end"
    /\ state_ = "OFF"
    /\ OpenLineFeeds(Frame) # {}
    /\ Min(OpenLineFeeds(Frame)) > 1
    /\ Len(Frame) > Min(OpenLineFeeds(Frame))
    /\ IsSpanFrame(SubSeq(Frame, 1, Min(OpenLineFeeds(Frame)) - 1))
    /\ Len(out) = 1

(***************************************************************************)
(* The device floods the line: chunks that fill the receive queue, so that *)
(* a frame outgrows buf_ before its end marker, and whole frames.          *)
(***************************************************************************)
BulkChunks ==
    { <<START_FRAME>>, <<END_FRAME>>,
      Fill(MaxRx, 65),
      <<START_FRAME>> \o MkRecord(<<65>>, <<66>>) \o <<END_FRAME>> }

ReceiveBulk == Receive(BulkChunks)

NextOverflow ==
    \/ setup \/ update
    \/ LoopOff \/ LoopOn \/ LoopStartFrame \/ LoopEndFrame
    \/ ReceiveBulk

SpecOverflow == Init /\ [][NextOverflow]_vars

(***************************************************************************)
(* C5: when a frame outgrows the buffer before its end marker is read, the *)
(* read that overflows happens in START_FRAME_RECEIVED, takes the router   *)
(* to OFF and dispatches nothing; START_FRAME_RECEIVED is always entered   *)
(* with fill length 0, and in START_FRAME_RECEIVED and END_FRAME_RECEIVED   *)
(* the filled part of the buffer is exactly the bytes read since the last  *)
(* start marker, so no byte of an overflowed frame is ever parsed.         *)
(***************************************************************************)
InFrame == state_ \in {"START_FRAME_RECEIVED", "END_FRAME_RECEIVED"}

C5_OverflowStep ==
    /\ rd' = "overflow" =>
          /\ state_ = "START_FRAME_RECEIVED"
          /\ state_' = "OFF"
          /\ out' = <<>>
          /\ calls' = <<>>
          /\ Len(cur') >= MAX_BUF_SIZE
    /\ (state_ # "START_FRAME_RECEIVED" /\ state_' = "START_FRAME_RECEIVED") =>
          buf_index_' = 0
    /\ state_' = "END_FRAME_RECEIVED" => Len(cur') < MAX_BUF_SIZE
    /\ ev' = "loop_end" => FrameOf(buf_, buf_index_) = cur

C5_OverflowDiscardsFrame ==
    /\ [](InFrame => Frame = cur)
    /\ [][C5_OverflowStep]_vars

(* after an overflow, the next cycle has entered START_FRAME_RECEIVED: the *)
(* buffer still holds the overflowed bytes, the fill length is 0           *)
C5_Witness ==
    /\ ev = "loop_on"
    /\ state_ = "START_FRAME_RECEIVED"
    /\ buf_index_ = 0
    /\ buf_[MAX_BUF_SIZE - 2] = 65

(* the frame after the overflowed one is parsed on its own *)
C5_Reach_NextFrameParsed ==
    /\ ev = "loop_end"
    /\ buf_[MAX_BUF_SIZE - 2] = 65
    /\ Len(out) = 1
    /\ Len(Frame) < MAX_BUF_SIZE - 2

C5_Reach_Overflow ==
    /\ rd = "overflow"
    /\ state_ = "OFF"
    /\ buf_index_ = MAX_BUF_SIZE - 1

(***************************************************************************)
(* C6: update() in OFF sets the fill length to 0 and the state to ON;      *)
(* update() in any other state leaves the state, the fill length and the   *)
(* buffer contents as they are.                                            *)
(***************************************************************************)
C6_UpdateStep ==
    ev' = "update" =>
        IF state_ = "OFF"
        THEN buf_index_' = 0 /\ state_' = "ON"
        ELSE UNCHANGED <<state_, buf_index_, buf_>>

C6_UpdateOnlyFromOff == [][C6_UpdateStep]_vars

(* update() called in the middle of a frame *)
C6_Witness ==
    /\ ev = "update"
    /\ state_ = "START_FRAME_RECEIVED"
    /\ buf_index_ > 0

C6_Reach_UpdateInEndFrame ==
    /\ ev = "update"
    /\ state_ = "END_FRAME_RECEIVED"
    /\ buf_index_ > 0

C6_Reach_UpdateResets ==
    /\ ev = "update"
    /\ state_ = "ON"
    /\ buf_index_ = 0
    /\ buf_[0] # 0 /\ buf_[1] # buf_[0]

(***************************************************************************)
(* C7: the router starts in OFF and its state changes only along           *)
(* OFF -> ON (update), ON -> START_FRAME_RECEIVED (loop, start marker      *)
(* read), START_FRAME_RECEIVED -> END_FRAME_RECEIVED (loop, end marker     *)
(* read), START_FRAME_RECEIVED -> OFF (loop, overflow) and                 *)
(* END_FRAME_RECEIVED -> OFF (loop, after the parse); loop() in OFF        *)
(* changes nothing.                                                        *)
(***************************************************************************)
C7_Step ==
    /\ state_' # state_ =>
          \/ state_ = "OFF" /\ state_' = "ON" /\ ev' = "update"
          \/ /\ state_ = "ON" /\ state_' = "START_FRAME_RECEIVED"
             /\ ev' = "loop_on" /\ rd' = "found"
          \/ /\ state_ = "START_FRAME_RECEIVED" /\ state_' = "END_FRAME_RECEIVED"
             /\ ev' = "loop_start" /\ rd' = "found"
          \/ /\ state_ = "START_FRAME_RECEIVED" /\ state_' = "OFF"
             /\ ev' = "loop_start" /\ rd' = "overflow"
          \/ state_ = "END_FRAME_RECEIVED" /\ state_' = "OFF" /\ ev' = "loop_end"
    /\ ev' = "loop_off" => UNCHANGED <<prog, rx>>
    /\ ev' = "loop_on" => state_ = "ON"
    /\ ev' = "loop_start" => state_ = "START_FRAME_RECEIVED"
    /\ ev' = "loop_end" => state_ = "END_FRAME_RECEIVED"

C7_OneStepAlongTheCycle == state_ = "OFF" /\ [][C7_Step]_vars

(* a whole cycle has been walked, and loop() is called again in OFF *)
C7_Witness ==
    /\ ev = "loop_off"
    /\ state_ = "OFF"
    /\ buf_index_ > 0
    /\ rx # <<>>

(***************************************************************************)
(* C8: one invocation of read_chars_until_ (one loop() call) takes at most *)
(* MAX_ITERATIONS bytes from the input, in order, and leaves the rest      *)
(* there; when it stops at the cap, the target byte not read, the router   *)
(* state is unchanged and the remaining bytes are still pending.           *)
(***************************************************************************)
C8_ReadStep ==
    /\ ev' \in {"loop_on", "loop_start"} =>
          /\ nread' <= MAX_ITERATIONS
          /\ nread' <= Len(rx)
          /\ rx' = SubSeq(rx, nread' + 1, Len(rx))
          /\ rd' = "cap" =>
                /\ nread' = MAX_ITERATIONS
                /\ state_' = state_
                /\ rx' # <<>>
          /\ (nread' = MAX_ITERATIONS /\ rd' \notin {"found", "overflow"}) =>
                state_' = state_
    /\ ev' \in {"loop_off", "loop_end"} => (rx' = rx /\ nread' = 0)

C8_AtMostCapBytesPerCall == [](nread <= MAX_ITERATIONS) /\ [][C8_ReadStep]_vars

(* more bytes pending than the cap: the call stops with bytes left over *)
C8_Witness ==
    /\ rd = "cap"
    /\ ev = "loop_start"
    /\ state_ = "START_FRAME_RECEIVED"
    /\ nread = MAX_ITERATIONS
    /\ rx # <<>>

C8_Reach_CapWhileDropping ==
    /\ rd = "cap"
    /\ ev = "loop_on"
    /\ state_ = "ON"
    /\ rx # <<>>

(***************************************************************************)
(* C9: in every reachable state the fill length buf_index_ is at most the  *)
(* capacity MAX_BUF_SIZE of buf_, and every write into buf_ made by the    *)
(* last call is at an index from 0 to MAX_BUF_SIZE - 1.                    *)
(***************************************************************************)
C9_FillWithinCapacity ==
    /\ buf_index_ \in 0..MAX_BUF_SIZE
    /\ \A i \in wr : i \in 0..(MAX_BUF_SIZE - 1)
    /\ DOMAIN buf_ = 0..(MAX_BUF_SIZE - 1)

(* the buffer filled as far as it goes *)
C9_Witness ==
    /\ buf_index_ = MAX_BUF_SIZE - 1
    /\ (MAX_BUF_SIZE - 2) \in wr
    /\ state_ = "START_FRAME_RECEIVED"

(***************************************************************************)
(* C10: in a checksum-valid record, a tag or a value of MAX - 1 bytes of   *)
(* text is accepted and emitted as it is; a tag of MAX_TAG_SIZE bytes or a *)
(* value of MAX_VAL_SIZE bytes makes the record rejected, and the          *)
(* destination array (tag_, val_) is then left as it was.                  *)
(***************************************************************************)
OneRecord(s) == IsSpanFrame(s) /\ Len(SpanBodies(s)) = 1 /\ CrcOk(SpanBodies(s)[1])

GoodField(f, max) == Len(f) \in 1..(max - 1) /\ IsText(f)

C10_ParseStep ==
    (ev' = "loop_end" /\ OneRecord(Frame) /\ WellShaped(SpanBodies(Frame)[1])) =>
        LET b == SpanBodies(Frame)[1]
            t == TagOf(b)
            v == ValOf(b)
        IN  /\ (Len(t) = MAX_TAG_SIZE - 1 /\ IsText(t) /\ GoodField(v, MAX_VAL_SIZE))
                  => Emitted(out') = <<Pair(t, v)>>
            /\ (Len(v) = MAX_VAL_SIZE - 1 /\ IsText(v) /\ GoodField(t, MAX_TAG_SIZE))
                  => Emitted(out') = <<Pair(t, v)>>
            /\ Len(t) = MAX_TAG_SIZE
                  => (out' = <<>> /\ tag_' = tag_ /\ val_' = val_)
            /\ (Len(v) = MAX_VAL_SIZE /\ GoodField(t, MAX_TAG_SIZE))
                  => (out' = <<>> /\ val_' = val_)

C10_FieldLengthBoundary == [][C10_ParseStep]_vars

(* a record whose tag and value are both MAX - 1 bytes long was emitted *)
C10_Witness ==
    /\ ev = "loop_end"
    /\ OneRecord(Frame)
    /\ Len(TagOf(SpanBodies(Frame)[1])) = MAX_TAG_SIZE - 1
    /\ Len(ValOf(SpanBodies(Frame)[1])) = MAX_VAL_SIZE - 1
    /\ Len(out) = 1
    /\ Len(out[1].tag) = MAX_TAG_SIZE - 1
    /\ Len(out[1].val) = MAX_VAL_SIZE - 1

C10_Reach_TagOfMaxRejected ==
    /\ ev = "loop_end"
    /\ OneRecord(Frame)
    /\ Len(TagOf(SpanBodies(Frame)[1])) = MAX_TAG_SIZE
    /\ out = <<>>

C10_Reach_ValOfMaxRejected ==
    /\ ev = "loop_end"
    /\ OneRecord(Frame)
    /\ HasVal(SpanBodies(Frame)[1])
    /\ Len(ValOf(SpanBodies(Frame)[1])) = MAX_VAL_SIZE
    /\ out = <<>>

(***************************************************************************)
(* C2: for each Measurement (tag, value) of a frame, publish_value_ calls  *)
(* exactly the entries of the registry whose tag equals the Measurement's  *)
(* tag, in registration order, each with the Measurement's value; an entry *)
(* registered twice is called twice, an entry with another tag never.      *)
(***************************************************************************)
Matching(ls, tag) == SelectSeq(ls, LAMBDA l : ListenerTag(l) = tag)

CallsFor(ls, m) ==
    [i \in 1..Len(Matching(ls, m.tag)) |->
        [listener |-> Matching(ls, m.tag)[i], val |-> m.val]]

RECURSIVE ExpectedCalls(_, _)
ExpectedCalls(ls, o) ==
    IF o = <<>> THEN <<>>
    ELSE CallsFor(ls, Head(o)) \o ExpectedCalls(ls, Tail(o))

C2_MatchingListenersInOrder ==
    ev = "loop_end" => calls = ExpectedCalls(mk2pvrouter_listeners_, out)

(* an entry registered twice around an entry with another tag *)
C2_Witness ==
    /\ ev = "loop_end"
    /\ mk2pvrouter_listeners_ = <<"l1", "l3", "l1">>
    /\ Len(out) = 1
    /\ out[1].tag = ListenerTag("l1")
    /\ calls = <<[listener |-> "l1", val |-> out[1].val],
                 [listener |-> "l1", val |-> out[1].val]>>

(* two distinct entries sharing a tag *)
C2_Reach_SharedTag ==
    /\ ev = "loop_end"
    /\ mk2pvrouter_listeners_ = <<"l2", "l3", "l1">>
    /\ Len(out) = 2
    /\ Len(calls) = 3

(***************************************************************************)
(* The checksum functions on their own: a span of arbitrary bytes lies at  *)
(* the start of buf_ (grp = buf_, grp_len = buf_index_), in a build whose  *)
(* char is signed or unsigned; calculate_crc_ and check_crc_ are called on *)
(* it, and the sender stores a computed checksum as the span's last byte.  *)
(***************************************************************************)
MaxSpan == 3

CrcBytes == {0, 9, 32, 96, 200, 255}

Spans == UNION {[0..(k - 1) -> CrcBytes] : k \in 0..MaxSpan}

InitCrc ==
    /\ state_ = "END_FRAME_RECEIVED"
    /\ \E g \in Spans :
          /\ buf_ = [i \in 0..(MAX_BUF_SIZE - 1) |-> IF i \in DOMAIN g THEN g[i] ELSE 0]
          /\ buf_index_ = Cardinality(DOMAIN g)
    /\ tag_ = [i \in 0..(MAX_TAG_SIZE - 1) |-> 0]
    /\ val_ = [i \in 0..(MAX_VAL_SIZE - 1) |-> 0]
    /\ mk2pvrouter_listeners_ = <<>>
    /\ rx = <<>>
    /\ setup_done = TRUE
    /\ nchunks = 0
    /\ ev = "init"
    /\ rd = "none" /\ nread = 0 /\ wr = {}
    /\ cur = <<>> /\ out = <<>> /\ calls = <<>> /\ rd_hi = 0
    /\ char_signed \in BOOLEAN
    /\ crc = NOT_FOUND
    /\ chk = "none"

CrcFrame == <<state_, buf_index_, tag_, val_, mk2pvrouter_listeners_, rx, setup_done,
              nchunks, rd, nread, wr, cur, out, calls, rd_hi, char_signed>>

(* calculate_crc_(buf_, buf_index_) *)
CalculateCrc ==
    /\ crc' = calculate_crc_(buf_, 0, buf_index_)
    /\ ev' = "calculate_crc"
    /\ UNCHANGED <<CrcFrame, buf_, chk>>

(* The sender puts the checksum just computed in the span's last byte. *)
AppendCrc ==
    /\ ev = "calculate_crc"
    /\ buf_index_ >= 1
    /\ buf_' = [buf_ EXCEPT ![buf_index_ - 1] = crc]
    /\ ev' = "append_crc"
    /\ UNCHANGED <<CrcFrame, crc, chk>>

(* check_crc_(buf_, buf_ + buf_index_) on a span of at least one byte *)
CheckCrc ==
    /\ buf_index_ >= 1
    /\ chk' = IF check_crc_(buf_, 0, buf_index_) THEN "ok" ELSE "mismatch"
    /\ ev' = "check_crc"
    /\ UNCHANGED <<CrcFrame, buf_, crc>>

NextCrc == CalculateCrc \/ AppendCrc \/ CheckCrc

SpecCrc == InitCrc /\ [][NextCrc]_vars

(***************************************************************************)
(* C11: checksum round trip.  A span whose last byte was set to the value  *)
(* calculate_crc_ returns for it passes check_crc_; and check_crc_ accepts *)
(* a span exactly when its last byte equals ((sum of the bytes before the  *)
(* last) mod 64) + 0x20.                                                   *)
(***************************************************************************)
C11_Accepts ==
    ev = "check_crc" =>
        (chk = "ok" <=> Frame[Len(Frame)] = Checksum(SubSeq(Frame, 1, Len(Frame) - 1)))

C11_RoundTripStep == (ev = "append_crc" /\ ev' = "check_crc") => chk' = "ok"

C11_ChecksumRoundTrip == []C11_Accepts /\ [][C11_RoundTripStep]_vars

(* a sealed span with a byte above 0x7F, char signed, checked and accepted *)
C11_Witness ==
    /\ ev = "check_crc"
    /\ chk = "ok"
    /\ char_signed
    /\ buf_index_ = MaxSpan
    /\ buf_[0] >= 128
    /\ crc = buf_[buf_index_ - 1]

C11_Reach_Mismatch ==
    /\ ev = "check_crc"
    /\ chk = "mismatch"
    /\ buf_[buf_index_ - 1] >= 128

(***************************************************************************)
(* C20: calculate_crc_ returns a value in 0x20..0x5F equal to ((unbounded  *)
(* sum of the unsigned values of the bytes it sums) mod 64) + 0x20, though *)
(* it sums in 8 bits over chars that may be signed; on a span no longer    *)
(* than checksum_area_end_ it sums nothing and returns 0x20.               *)
(***************************************************************************)
Summed(s) == SubSeq(s, 1, Len(s) - checksum_area_end_)

C20_CrcPrintableAndMod64 ==
    ev = "calculate_crc" =>
        /\ crc \in 32..95
        /\ crc = (SeqSum(Summed(Frame)) % 64) + 32
        /\ Len(Frame) <= checksum_area_end_ => crc = 32

(* the 8-bit sum wrapped, over bytes that a signed char makes negative *)
C20_Witness ==
    /\ ev = "calculate_crc"
    /\ char_signed
    /\ SeqSum(Summed(Frame)) >= 256
    /\ crc # 32

C20_Reach_NothingSummed ==
    /\ ev = "calculate_crc"
    /\ Len(Frame) = checksum_area_end_
    /\ Frame[1] # 0
    /\ crc = 32

(***************************************************************************)
(* Several cycles in a row: whole frames arrive in one chunk, a frame of   *)
(* noise longer than the record frame leaves a line-feed just beyond the   *)
(* next frame's fill length, and a flood overflows the buffer.             *)
(***************************************************************************)
WholeFrame(payload) == <<START_FRAME>> \o payload \o <<END_FRAME>>

CycleChunks ==
    { <<START_FRAME>>, <<END_FRAME>>,
      WholeFrame(MkRecord(<<65>>, <<66>>)),
      WholeFrame(Fill(Len(MkRecord(<<65>>, <<66>>)), 65) \o <<LINE_FEED>>),
      MkRecord(Fill(MAX_TAG_SIZE - 1, 66), Fill(MAX_VAL_SIZE - 1, 65)),
      Fill(MaxRx, 65) }

ReceiveCycles == Receive(CycleChunks)

NextCycles ==
    \/ setup \/ update
    \/ LoopOff \/ LoopOn \/ LoopStartFrame \/ LoopEndFrame
    \/ ReceiveCycles

SpecCycles == Init /\ [][NextCycles]_vars

(* Bytes that can lie in an array beyond what the current frame wrote. *)
StaleBytes == {0, LINE_FEED, CARRIAGE_RETURN, TAB, 65}

(* The buffer holding frame s from index 0, every other cell holding g. *)
BufferWith(s, g) ==
    [i \in 0..(MAX_BUF_SIZE - 1) |-> IF i < Len(s) THEN s[i + 1] ELSE g]

(* The Measurements the parse makes of frame s with g around it. *)
ParsedAlone(s, g, ub) ==
    ParseFrame(BufferWith(s, g), Len(s), ub, <<>>,
               [i \in 0..(MAX_TAG_SIZE - 1) |-> g],
               [i \in 0..(MAX_VAL_SIZE - 1) |-> g]).out

(***************************************************************************)
(* C12: the Measurements dispatched for a frame depend on the frame's      *)
(* bytes only: they are those the parse makes of the same bytes whatever   *)
(* lies in buf_ beyond the fill length and in tag_ and val_, so the same   *)
(* frame gives the same Measurements in every cycle.                       *)
(***************************************************************************)
C12_FrameBytesOnly ==
    ev = "loop_end" =>
        \A g \in StaleBytes : \A ub \in PastTheEnd : out = ParsedAlone(cur, g, ub)

(* a record frame parsed with the line-feed of a longer, earlier frame     *)
(* lying just beyond its fill length                                       *)
C12_Witness ==
    /\ ev = "loop_end"
    /\ Len(out) = 1
    /\ IsSpanFrame(Frame) /\ AllBodies(Frame, ValidBody)
    /\ buf_[buf_index_] = LINE_FEED
    /\ buf_[buf_index_ - 1] = CARRIAGE_RETURN
    /\ buf_[MAX_BUF_SIZE - 1] = 0

(* the record frame parsed after a frame that filled the buffer *)
C12_Reach_AfterFullBuffer ==
    /\ ev = "loop_end"
    /\ Len(out) = 1
    /\ Len(Frame) < MAX_BUF_SIZE - 2
    /\ buf_[MAX_BUF_SIZE - 2] = 65

(***************************************************************************)
(* C13: however the bytes of a frame become available to the loop() calls  *)
(* (all at once, in pieces, more than the per-call cap, nothing at times), *)
(* the buffer parsed holds the payload between the markers, and the        *)
(* Measurements are those of the payload read in one piece into an empty   *)
(* buffer.                                                                 *)
(***************************************************************************)
ReadInOnePiece(s) ==
    ParseFrame(BufferWith(s, 0), Len(s), NOT_FOUND, <<>>,
               [i \in 0..(MAX_TAG_SIZE - 1) |-> 0],
               [i \in 0..(MAX_VAL_SIZE - 1) |-> 0]).out

C13_PartialReadsSameResult ==
    ev = "loop_end" => (Frame = cur /\ out = ReadInOnePiece(cur))

(* a frame longer than the per-call cap, so read by two calls or more *)
C13_Witness ==
    /\ ev = "loop_end"
    /\ Len(cur) > MAX_ITERATIONS
    /\ out # <<>>
    /\ IsSpanFrame(cur)

(***************************************************************************)
(* C14: Measurements are dispatched only by the loop() call made in        *)
(* END_FRAME_RECEIVED, which is the only way out of that state and leads   *)
(* to OFF, so a completed frame is parsed once; and every Measurement      *)
(* comes from a span of the frame's filled bytes that starts after a       *)
(* line-feed, ends at the next carriage-return, passes the checksum check  *)
(* and has a tag and a value of 1 to MAX - 1 bytes each.                   *)
(***************************************************************************)
UpToNul(f) == IF FirstPos(f, 0) = 0 THEN f ELSE SubSeq(f, 1, FirstPos(f, 0) - 1)

(* Measurement m comes from the span that follows position m.at of s. *)
FromSpan(s, m) ==
    /\ m.at \in 1..Len(s)
    /\ s[m.at] = LINE_FEED
    /\ LET rest == SubSeq(s, m.at + 1, Len(s))
           b == SubSeq(rest, 1, FirstPos(rest, CARRIAGE_RETURN) - 1)
       IN  /\ FirstPos(rest, CARRIAGE_RETURN) > 0
           /\ CrcOk(b)
           /\ HasVal(b)
           /\ Len(TagOf(b)) \in 1..(MAX_TAG_SIZE - 1)
           /\ Len(ValOf(b)) \in 1..(MAX_VAL_SIZE - 1)
           /\ m.tag = UpToNul(TagOf(b))
           /\ m.val = UpToNul(ValOf(b))

C14_State ==
    /\ (out # <<>> \/ calls # <<>>) => ev = "loop_end"
    /\ ev = "loop_end" =>
          /\ \A i \in 1..Len(out) : FromSpan(Frame, out[i])
          /\ \A i, j \in 1..Len(out) : i < j => out[i].at < out[j].at

C14_Step ==
    /\ ev' = "loop_end" => (state_ = "END_FRAME_RECEIVED" /\ state_' = "OFF")
    /\ (state_ = "END_FRAME_RECEIVED" /\ state_' # "END_FRAME_RECEIVED") => ev' = "loop_end"
    /\ state_' = "END_FRAME_RECEIVED" =>
          (state_ = "END_FRAME_RECEIVED" \/ (ev' = "loop_start" /\ rd' = "found"))

C14_DispatchOnlyFromParse == []C14_State /\ [][C14_Step]_vars

(* a record found behind a byte of noise *)
C14_Witness ==
    /\ ev = "loop_end"
    /\ Len(out) = 1
    /\ out[1].at > 1
    /\ Frame[1] # LINE_FEED

(* a Measurement whose tag is the field's bytes before a NUL *)
C14_Reach_TagCutAtNul ==
    /\ ev = "loop_end"
    /\ Len(out) = 1
    /\ IsSpanFrame(Frame)
    /\ out[1].tag # TagOf(SpanBodies(Frame)[1])

(***************************************************************************)
(* A line that never falls silent: whenever the receive queue is empty the *)
(* device can send an end marker, a run of start-marker bytes (a start     *)
(* marker when the router is ON, payload when it is in a frame) or a whole *)
(* record frame, with no bound on how many; the host calls setup() once    *)
(* and goes on calling loop() and update().                                *)
(***************************************************************************)
LiveChunks ==
    { <<END_FRAME>>,
      Fill(MaxRx, START_FRAME),
      WholeFrame(MkRecord(<<65>>, <<66>>)) }

Deliver ==
    /\ rx = <<>>
    /\ \E c \in LiveChunks : rx' = c
    /\ ev' = "receive"
    /\ NoIo
    /\ UNCHANGED <<prog, setup_done, nchunks, cur, crc_io>>

NextLive ==
    \/ setup \/ update
    \/ LoopOff \/ LoopOn \/ LoopStartFrame \/ LoopEndFrame
    \/ Deliver

(* The host's main loop calls loop() on every pass and update() on every   *)
(* polling interval, for ever; the device keeps sending.                   *)
(* loop() in END_FRAME_RECEIVED can always run: its switch case has no guard. *)
ParseDue == setup_done /\ state_ = "END_FRAME_RECEIVED"

(* Weak fairness of LoopEndFrame, its enabling condition written out. *)
ParseFair == <>[]ParseDue => []<><<LoopEndFrame>>_vars

SpecLive ==
    /\ Init
    /\ [][NextLive]_vars
    /\ WF_vars(setup)
    /\ WF_vars(update)
    /\ WF_vars(LoopOff)
    /\ WF_vars(LoopOn)
    /\ WF_vars(LoopStartFrame)
    /\ ParseFair
    /\ WF_vars(Deliver)

(***************************************************************************)
(* C15: with loop() and update() called again and again and bytes still    *)
(* arriving, START_FRAME_RECEIVED leads to OFF (through the end marker and *)
(* the parse, or through overflow), END_FRAME_RECEIVED leads to OFF, in    *)
(* the very loop() call that parses, and OFF leads to ON.                  *)
(***************************************************************************)
C15_ParseStep ==
    (state_ = "END_FRAME_RECEIVED" /\ ev' \in {"loop_off", "loop_on", "loop_start", "loop_end"})
        => (ev' = "loop_end" /\ state_' = "OFF")

C15_NeverStuck ==
    /\ (state_ = "START_FRAME_RECEIVED") ~> (state_ = "OFF")
    /\ (state_ = "END_FRAME_RECEIVED") ~> (state_ = "OFF")
    /\ (state_ = "OFF") ~> (state_ = "ON")
    /\ [][C15_ParseStep]_vars

(* an overflowed frame behind it, the router is ON again *)
C15_Witness ==
    /\ ev = "update"
    /\ state_ = "ON"
    /\ Len(cur) >= MAX_BUF_SIZE

(* a parsed frame behind it, the router is ON again *)
C15_Reach_OnAfterParse ==
    /\ ev = "update"
    /\ state_ = "ON"
    /\ Len(cur) >= MaxRx
    /\ Len(cur) < MAX_BUF_SIZE

(***************************************************************************)
(* C16: the parse made by loop() in END_FRAME_RECEIVED examines only       *)
(* indices of buf_ below the fill length buf_index_, and so never an index *)
(* at or beyond the capacity MAX_BUF_SIZE.  rd_hi is 1 + the highest index *)
(* the searches and reads of the call looked at.                           *)
(***************************************************************************)
C16_ReadsOnlyFilledBytes ==
    ev = "loop_end" => (rd_hi <= buf_index_ /\ rd_hi <= MAX_BUF_SIZE)

(* the line-feed search after the last record of a long frame runs off buf_ *)
C16_Reach_ReadsPastArray ==
    /\ ev = "loop_end"
    /\ Len(out) >= 1
    /\ buf_index_ < MAX_BUF_SIZE
    /\ rd_hi > MAX_BUF_SIZE

(* the same search in a short frame looks at bytes left by earlier frames *)
C16_Reach_ReadsStaleBytes ==
    /\ ev = "loop_end"
    /\ Len(out) = 1
    /\ buf_index_ = Len(MkRecord(<<65>>, <<66>>))
    /\ rd_hi > buf_index_
    /\ rd_hi <= MAX_BUF_SIZE

(***************************************************************************)
(* C17: for an empty frame (fill length 0) and for a frame without a       *)
(* line-feed, the loop() call in END_FRAME_RECEIVED scans nothing beyond   *)
(* the filled bytes (the scan length buf_index_ - 1 does not wrap),        *)
(* dispatches no Measurement and ends in OFF.                              *)
(***************************************************************************)
NoLineFeed(s) == \A i \in 1..Len(s) : s[i] # LINE_FEED

C17_EmptyFrameScansNothing ==
    (ev = "loop_end" /\ Frame = cur /\ NoLineFeed(cur)) =>
        /\ rd_hi <= buf_index_
        /\ ScanLen(buf_index_) < MAX_BUF_SIZE
        /\ out = <<>>
        /\ calls = <<>>
        /\ state_ = "OFF"

(* an empty frame in a buffer that holds no line-feed: the search leaves buf_ *)
C17_Reach_EmptyFrameScansPastArray ==
    /\ ev = "loop_end"
    /\ cur = <<>>
    /\ buf_index_ = 0
    /\ ScanLen(buf_index_) = UINT_WRAP
    /\ rd_hi > MAX_BUF_SIZE
    /\ out = <<>>
    /\ state_ = "OFF"

(* an empty frame after a frame with records: the search stops in old bytes *)
C17_Reach_EmptyFrameFindsOldLineFeed ==
    /\ ev = "loop_end"
    /\ cur = <<>>
    /\ buf_index_ = 0
    /\ buf_[0] # LINE_FEED
    /\ rd_hi \in 2..MAX_BUF_SIZE
    /\ out = <<>>

(* a frame of filler bytes only: the search stays within the filled bytes *)
C17_Reach_NoLineFeedFrame ==
    /\ ev = "loop_end"
    /\ Len(cur) >= 2
    /\ NoLineFeed(cur)
    /\ rd_hi = buf_index_ - 1
    /\ out = <<>>

(***************************************************************************)
(* C18: with drop = false a non-target byte is appended whenever the fill  *)
(* length is below MAX_BUF_SIZE, and a read ends in overflow only when the *)
(* buffer already holds MAX_BUF_SIZE bytes: a frame overflows only with    *)
(* its byte number MAX_BUF_SIZE + 1, so a payload of exactly MAX_BUF_SIZE  *)
(* bytes is stored whole.                                                  *)
(***************************************************************************)
C18_OverflowStep ==
    (ev' = "loop_start" /\ rd' = "overflow") =>
        /\ buf_index_' >= MAX_BUF_SIZE
        /\ Len(cur') > MAX_BUF_SIZE

C18_OverflowOnlyAtCapacity == [][C18_OverflowStep]_vars

(* the overflow as the code makes it: on byte number MAX_BUF_SIZE of the   *)
(* frame, with MAX_BUF_SIZE - 1 bytes stored and the last element unused   *)
C18_Reach_OverflowBelowCapacity ==
    /\ ev = "loop_start"
    /\ rd = "overflow"
    /\ state_ = "OFF"
    /\ buf_index_ = MAX_BUF_SIZE - 1
    /\ Len(cur) = MAX_BUF_SIZE
    /\ (MAX_BUF_SIZE - 1) \notin wr

(* the longest frame that reaches the parse: MAX_BUF_SIZE - 1 bytes *)
C18_Reach_LongestFrame ==
    /\ ev = "loop_start"
    /\ rd = "found"
    /\ state_ = "END_FRAME_RECEIVED"
    /\ buf_index_ = MAX_BUF_SIZE - 1
    /\ Len(cur) = MAX_BUF_SIZE - 1

(***************************************************************************)
(* C19: a read that finds its target byte takes it from the input without  *)
(* storing it and stops there, the bytes after it left in the input; in    *)
(* state ON (drop = true) a read changes neither buf_ nor buf_index_       *)
(* whatever it reads; the filled part of buf_ never holds the end marker   *)
(* 0x03; loop() in OFF or END_FRAME_RECEIVED takes no byte from the input. *)
(***************************************************************************)
Target(e) == IF e = "loop_on" THEN START_FRAME ELSE END_FRAME

C19_NoEndMarkerStored == \A i \in 0..(buf_index_ - 1) : buf_[i] # END_FRAME

C19_ReadStep ==
    /\ (ev' \in {"loop_on", "loop_start"} /\ rd' = "found") =>
          /\ nread' \in 1..Len(rx)
          /\ rx[nread'] = Target(ev')
          /\ \A i \in 1..(nread' - 1) : rx[i] # Target(ev')
          /\ rx' = SubSeq(rx, nread' + 1, Len(rx))
          /\ ev' = "loop_start" =>
                /\ buf_index_' = buf_index_ + nread' - 1
                /\ FrameOf(buf_', buf_index_') = Frame \o SubSeq(rx, 1, nread' - 1)
                /\ \A i \in 0..(MAX_BUF_SIZE - 1) :
                      i \notin buf_index_..(buf_index_' - 1) => buf_'[i] = buf_[i]
    /\ ev' = "loop_on" => (UNCHANGED <<buf_, buf_index_>> /\ wr' = {})
    /\ ev' \in {"loop_off", "loop_end"} => (rx' = rx /\ nread' = 0)

C19_TargetConsumedNotStored == []C19_NoEndMarkerStored /\ [][C19_ReadStep]_vars

(* noise, then the start marker, then more bytes: the noise and the marker *)
(* are taken, nothing is stored, the later bytes stay in the input         *)
C19_Witness ==
    /\ ev = "loop_on"
    /\ rd = "found"
    /\ nread >= 2
    /\ rx # <<>>
    /\ state_ = "START_FRAME_RECEIVED"
    /\ buf_index_ = 0
    /\ wr = {}

(* the end marker read with bytes after it: they are still in the input *)
C19_Reach_EndMarkerThenMore ==
    /\ ev = "loop_start"
    /\ rd = "found"
    /\ state_ = "END_FRAME_RECEIVED"
    /\ buf_index_ > 0
    /\ rx # <<>>

(* loop() in END_FRAME_RECEIVED with input pending *)
C19_Reach_ParseLeavesInput ==
    /\ ev = "loop_end"
    /\ rx # <<>>

====
